---- MODULE Spec2Model ----
(***************************************************************************)
(* A model of the two batch programs of supreme-memory:                    *)
(*   TranscriptionApp/transcribe.py    audio discovery -> Whisper -> .txt  *)
(*   TranscriptionAnalyzer/analyze.py  .txt discovery -> prompt -> LLM     *)
(*                                                                         *)
(* A string is a sequence of fragments.  A fragment is one character, or a *)
(* literal of the source that no code ever looks inside (a fixed directory *)
(* name, a fixed piece of the prompt), kept whole.  A path is a sequence   *)
(* of names, a name is a string.  The filesystem is a function from the    *)
(* paths that exist to [kind, content].                                    *)
(***************************************************************************)
EXTENDS Integers, Sequences, FiniteSets, TLC

VARIABLES
    fs,            \* the filesystem: path -> [kind : {"dir","file"}, content : string]
    pc,            \* transcribe.py main(): "start", "loop", "done", "raised"
    run,           \* which process run of transcribe.py this is (1, 2, ...)
    audio_files,   \* main(): the list get_audio_files() returned
    idx,           \* main(): position of the for loop in audio_files (1-based)
    successful,    \* main(): the success counter
    results,       \* per visited item of this run: [file, ret, text]
    prevResults,   \* results of the previous run (<<>> in the first run)
    prevTree,      \* the transcript files at the end of the previous run
    environ,       \* os.environ restricted to LLM_MODEL_PATH
    apc,           \* analyze.py main(): "start", "constructed", "loaded", "analyzed",
                   \*   "saved", "no_model", "no_files", "raised"
    model_path,    \* analyze.py main(): the selected model path (<<>> before it is read)
    llama,         \* the path the Llama handle was constructed from (<<>> = none)
    txt_files,     \* load_transcriptions: the paths glob returned
    transcriptions,\* the loaded batch: sequence of [filename, content]
    prompt,        \* the prompt handed to the LLM (<<>> = none built)
    analysis,      \* the stripped completion (<<>> = none)
    stdout,        \* what analyze.py printed: sequence of <<message, path>>
    exit_code,     \* exit status of analyze.py (-1 = still running)
    error          \* type of the uncaught exception of analyze.py ("" = none)

tvars == <<fs, pc, run, audio_files, idx, successful, results, prevResults, prevTree>>
avars == <<environ, apc, model_path, llama, txt_files, transcriptions, prompt, analysis,
           stdout, exit_code, error>>
vars == <<fs, pc, run, audio_files, idx, successful, results, prevResults, prevTree,
          environ, apc, model_path, llama, txt_files, transcriptions, prompt, analysis,
          stdout, exit_code, error>>

---------------------------------------------------------------------------
(* Bounds *)

\* How many times transcribe.py is run over the same audio snapshot.
MaxRuns == 2

---------------------------------------------------------------------------
(* Names and strings *)

DOT == "."
MP3 == <<".", "m", "p", "3">>
TXT == <<".", "t", "x", "t">>

DataDir == <<"C:\\Users\\a\\repos\\supreme-memory\\Data">>
AudioRecordings == <<"AudioRecordings">>
Transcriptions == <<"Transcriptions">>

D1 == <<"d", "1">>
T_MP3 == <<"t", ".", "m", "p", "3">>
AB_MP3 == <<"a", ".", "b", ".", "m", "p", "3">>
B_MP3U == <<"b", ".", "M", "P", "3">>
C_MP3 == <<"c", ".", "m", "p", "3">>
A_TXT == <<"a", ".", "t", "x", "t">>
B_TXT == <<"b", ".", "t", "x", "t">>
H_TXT == <<".", "h", ".", "t", "x", "t">>
N_MD == <<"n", ".", "m", "d">>

\* The order in which a directory enumerates its entries: unspecified by the
\* operating system but fixed for one snapshot; here the order of this list.
NameOrder == <<D1, T_MP3, AB_MP3, B_MP3U, C_MP3, N_MD, B_TXT, H_TXT, A_TXT>>

\* str.endswith
endswith(s, suffix) ==
    /\ Len(s) >= Len(suffix)
    /\ SubSeq(s, Len(s) - Len(suffix) + 1, Len(s)) = suffix

\* str.rfind('.'): the last position of a dot, 0 when there is none
\* (Python's index + 1).
rfind_dot(s) ==
    LET at == {i \in 1..Len(s) : s[i] = DOT}
    IN  IF at = {} THEN 0 ELSE CHOOSE i \in at : \A j \in at : j <= i

\* pathlib PurePath.stem: the name without its last suffix; a leading dot or a
\* trailing dot starts no suffix.
stem(name) ==
    LET i == rfind_dot(name)
    IN  IF 1 < i /\ i < Len(name) THEN SubSeq(name, 1, i - 1) ELSE name

---------------------------------------------------------------------------
(* Paths and the filesystem *)

\* os.path.join(path, name)
join(path, n) == Append(path, n)

\* Path.name, os.path.basename
name(path) == path[Len(path)]

\* Path.parent
parent(path) == SubSeq(path, 1, Len(path) - 1)

Dir == [kind |-> "dir", content |-> <<>>]
File(content) == [kind |-> "file", content |-> content]

\* os.path.exists
exists(f, path) == path \in DOMAIN f

\* os.path.isdir
isdir(f, path) == path \in DOMAIN f /\ f[path].kind = "dir"

isfile(f, path) == path \in DOMAIN f /\ f[path].kind = "file"

\* os.listdir: the names of the entries directly inside path.
listdir(f, path) == SelectSeq(NameOrder, LAMBDA n : join(path, n) \in DOMAIN f)

\* f with node written at path.
put(f, path, node) ==
    [p \in DOMAIN f \cup {path} |-> IF p = path THEN node ELSE f[p]]

Prefixes(path) == {SubSeq(path, 1, k) : k \in 1..Len(path)}

\* os.makedirs(path, exist_ok=True): every missing ancestor and path itself
\* become directories.
makedirs(f, path) ==
    [p \in DOMAIN f \cup Prefixes(path) |-> IF p \in DOMAIN f THEN f[p] ELSE Dir]

\* os.makedirs raises when a component of path exists and is not a directory.
makedirs_raises(f, path) == \E p \in Prefixes(path) : isfile(f, p)

audio_dir == join(<<DataDir>>, AudioRecordings)
transcriptions_dir == join(<<DataDir>>, Transcriptions)

\* The transcript files of a filesystem: path -> content.
TranscriptFiles(f) ==
    LET ps == {p \in DOMAIN f : /\ Len(p) > 2
                                /\ SubSeq(p, 1, 2) = transcriptions_dir
                                /\ f[p].kind = "file"}
    IN  [p \in ps |-> f[p].content]

---------------------------------------------------------------------------
(* transcribe.py *)

\* The inner loop of get_audio_files: the entries of one date directory whose
\* name ends in '.mp3', as full paths.
mp3_in(f, date_path) ==
    LET names == SelectSeq(listdir(f, date_path), LAMBDA n : endswith(n, MP3))
    IN  [i \in 1..Len(names) |-> join(date_path, names[i])]

\* The outer loop of get_audio_files over the entries of audio_dir.
RECURSIVE scan_dates(_, _)
scan_dates(f, dates) ==
    IF dates = <<>> THEN <<>>
    ELSE LET date_path == join(audio_dir, Head(dates))
         IN  (IF isdir(f, date_path) THEN mp3_in(f, date_path) ELSE <<>>)
             \o scan_dates(f, Tail(dates))

\* get_audio_files() without its os.path.exists guard: a missing audio_dir
\* reaches os.listdir, which raises.
get_audio_files_unguarded(f) ==
    IF ~isdir(f, audio_dir) THEN [raised |-> TRUE, files |-> <<>>]
    ELSE [raised |-> FALSE, files |-> scan_dates(f, listdir(f, audio_dir))]

\* get_audio_files(): the list it returns, or the fact that it raised
\* (os.listdir of an audio_dir that exists and is no directory).
get_audio_files(f) ==
    IF ~exists(f, audio_dir) THEN [raised |-> FALSE, files |-> <<>>]
    ELSE IF ~isdir(f, audio_dir) THEN [raised |-> TRUE, files |-> <<>>]
    ELSE [raised |-> FALSE, files |-> scan_dates(f, listdir(f, audio_dir))]

\* Where one call of transcribe_audio can raise: the statement that raises,
\* or "ok" when none does.
Outcomes == {"ok", "transcribe", "makedirs", "open", "write"}

\* What the speech model can return as result["text"].
AsrTexts == {<<"h", "i">>, <<"y">>}

\* transcribe_audio with the transcript opened in mode 'a' instead of 'w'.
transcribe_audio_append(f, audio_file, outcome, text) ==
    LET date_dir == join(transcriptions_dir, name(parent(audio_file)))
        path == join(date_dir, stem(name(audio_file)) \o TXT)
        f1 == makedirs(f, date_dir)
        f2 == IF isfile(f1, path) THEN f1 ELSE put(f1, path, File(<<>>))
        f3 == put(f2, path, File(f2[path].content \o text))
    IN  IF outcome = "transcribe" \/ ~isfile(f, audio_file)
            THEN [fs |-> f, ret |-> FALSE]
        ELSE IF outcome = "makedirs" \/ makedirs_raises(f, date_dir)
            THEN [fs |-> f, ret |-> FALSE]
        ELSE IF outcome = "open" \/ isdir(f1, path)
            THEN [fs |-> f1, ret |-> FALSE]
        ELSE IF outcome = "write"
            THEN [fs |-> f2, ret |-> FALSE]
        ELSE [fs |-> f3, ret |-> TRUE]

\* transcribe_audio(model, audio_file) on filesystem f, when the statement
\* named by outcome raises and the model returns text.  The model cannot
\* decode what is not a regular file.  [fs, ret]: the filesystem left behind
\* and the value returned.
transcribe_audio(f, audio_file, outcome, text) ==
    LET date_dir == join(transcriptions_dir, name(parent(audio_file)))
        path == join(date_dir, stem(name(audio_file)) \o TXT)
        f1 == makedirs(f, date_dir)
        f2 == put(f1, path, File(<<>>))
        f3 == put(f2, path, File(f2[path].content \o text))
    IN  IF outcome = "transcribe" \/ ~isfile(f, audio_file)
            THEN [fs |-> f, ret |-> FALSE]
        ELSE IF outcome = "makedirs" \/ makedirs_raises(f, date_dir)
            THEN [fs |-> f, ret |-> FALSE]
        ELSE IF outcome = "open" \/ isdir(f1, path)
            THEN [fs |-> f1, ret |-> FALSE]
        ELSE IF outcome = "write"
            THEN [fs |-> f2, ret |-> FALSE]
        ELSE [fs |-> f3, ret |-> TRUE]

\* main() up to the loop: load the model, discover, return when nothing found.
\* The Whisper model is taken to load; get_audio_files raising ends the run.
MainStart ==
    /\ pc = "start"
    /\ LET found == get_audio_files(fs)
       IN  /\ audio_files' = found.files
           /\ pc' = IF found.raised THEN "raised"
                    ELSE IF found.files = <<>> THEN "done"
                    ELSE "loop"
    /\ UNCHANGED <<fs, run, idx, successful, results, prevResults, prevTree>>
    /\ UNCHANGED avars

\* One iteration of the for loop of main().
TranscribeStep ==
    /\ pc = "loop"
    /\ idx <= Len(audio_files)
    /\ \E outcome \in Outcomes, text \in AsrTexts :
          LET r == transcribe_audio(fs, audio_files[idx], outcome, text)
          IN  /\ fs' = r.fs
              /\ successful' = IF r.ret THEN successful + 1 ELSE successful
              /\ results' = Append(results,
                                   [file |-> audio_files[idx], ret |-> r.ret,
                                    text |-> IF r.ret THEN text ELSE <<>>])
    /\ idx' = idx + 1
    /\ UNCHANGED <<pc, run, audio_files, prevResults, prevTree>>
    /\ UNCHANGED avars

\* The loop is exhausted: main() prints the summary and returns.
MainFinish ==
    /\ pc = "loop"
    /\ idx > Len(audio_files)
    /\ pc' = "done"
    /\ UNCHANGED <<fs, run, audio_files, idx, successful, results, prevResults, prevTree>>
    /\ UNCHANGED avars

\* transcribe.py is started again over the same files.
Rerun ==
    /\ pc = "done"
    /\ run < MaxRuns
    /\ run' = run + 1
    /\ pc' = "start"
    /\ audio_files' = <<>>
    /\ idx' = 1
    /\ successful' = 0
    /\ results' = <<>>
    /\ prevResults' = results
    /\ prevTree' = TranscriptFiles(fs)
    /\ UNCHANGED fs
    /\ UNCHANGED avars

---------------------------------------------------------------------------
(* Initial filesystems *)

\* A date-level entry of AudioRecordings: absent, a file, or a directory
\* holding, for each entry name, nothing, a file, an empty directory or a
\* directory with one file C_MP3 inside.  The nodes below `base`.
EntryNodes(base, n, kind) ==
    CASE kind = "absent" -> {}
      [] kind = "file" -> {<<join(base, n), File(<<"~">>)>>}
      [] kind = "dir" -> {<<join(base, n), Dir>>}
      [] kind = "dirfile" -> {<<join(base, n), Dir>>,
                              <<join(join(base, n), C_MP3), File(<<"~">>)>>}

PartNodes(p, kind, entries) ==
    CASE kind = "absent" -> {}
      [] kind = "file" -> {<<join(audio_dir, p), File(<<"~">>)>>}
      [] kind = "dir" ->
            {<<join(audio_dir, p), Dir>>}
            \cup UNION {EntryNodes(join(audio_dir, p), n, entries[n]) : n \in DOMAIN entries}

FsOf(nodes) ==
    LET ps == {nd[1] : nd \in nodes}
    IN  [p \in ps |-> (CHOOSE nd \in nodes : nd[1] = p)[2]]

\* What one date-level entry can be.
PartChoices(entryNames, entryKinds) ==
    {[kind |-> "absent", entries |-> <<>>], [kind |-> "file", entries |-> <<>>]}
    \cup {[kind |-> "dir", entries |-> e] : e \in [entryNames -> entryKinds]}

\* Every filesystem with Data/AudioRecordings a directory over these names.
AudioTrees(partNames, entryNames, entryKinds) ==
    {FsOf({<<(<<DataDir>>), Dir>>, <<audio_dir, Dir>>}
          \cup UNION {PartNodes(p, c[p].kind, c[p].entries) : p \in partNames}) :
       c \in [partNames -> PartChoices(entryNames, entryKinds)]}

\* Filesystems without a usable AudioRecordings: it is missing, or a file.
NoAudioTrees ==
    {FsOf({<<(<<DataDir>>), Dir>>}),
     FsOf({<<(<<DataDir>>), Dir>>, <<audio_dir, File(<<"~">>)>>})}

BatchTrees ==
    NoAudioTrees
    \cup AudioTrees({D1, T_MP3}, {AB_MP3, B_MP3U}, {"absent", "file", "dirfile"})

TInit ==
    /\ pc = "start"
    /\ run = 1
    /\ audio_files = <<>>
    /\ idx = 1
    /\ successful = 0
    /\ results = <<>>
    /\ prevResults = <<>>
    /\ prevTree = <<>>

AIdle ==
    /\ environ = <<>>
    /\ apc = "start"
    /\ model_path = <<>>
    /\ llama = <<>>
    /\ txt_files = <<>>
    /\ transcriptions = <<>>
    /\ prompt = <<>>
    /\ analysis = <<>>
    /\ stdout = <<>>
    /\ exit_code = -1
    /\ error = ""

Init ==
    /\ fs \in BatchTrees
    /\ TInit
    /\ AIdle

Next ==
    \/ MainStart
    \/ TranscribeStep
    \/ MainFinish
    \/ Rerun

Spec == Init /\ [][Next]_vars

---------------------------------------------------------------------------
(* analyze.py *)

NL == "\n"
SPACE == " "

\* Paths relative to the working directory of analyze.py.
DefaultModel == <<(<<"models">>), (<<"llama-2-7b-chat.gguf">>)>>
OtherModel == <<(<<"models">>), (<<"mistral-7b-instruct.gguf">>)>>
OutputDir == <<(<<"TranscriptionApp">>), (<<"output">>)>>
AnalyzerDir == <<(<<"TranscriptionAnalyzer">>)>>
output_file == join(AnalyzerDir, <<"analysis_output.txt">>)

\* os.getenv(key, default)
getenv(env, key, default) == IF key \in DOMAIN env THEN env[key] ELSE default

\* glob.glob(os.path.join(directory, "*.txt")): the entries of directory whose
\* name ends in ".txt" and does not start with a dot; none when directory is
\* no directory.
glob_txt(f, directory) ==
    LET names == SelectSeq(listdir(f, directory),
                           LAMBDA n : endswith(n, TXT) /\ n[1] # DOT)
    IN  IF ~isdir(f, directory) THEN <<>>
        ELSE [i \in 1..Len(names) |-> join(directory, names[i])]

\* TranscriptionAnalyzer.load_transcriptions(directory): the batch, or the
\* exception open() raises on a matching entry that is a directory.
load_transcriptions(f, directory) ==
    LET files == glob_txt(f, directory)
    IN  IF \E i \in 1..Len(files) : ~isfile(f, files[i])
        THEN [raised |-> "IsADirectoryError", files |-> files, batch |-> <<>>]
        ELSE [raised |-> "", files |-> files,
              batch |-> [i \in 1..Len(files) |->
                            [filename |-> name(files[i]),
                             content |-> f[files[i]].content]]]

\* f"File: {t['filename']}\n{t['content']}"
block(t) == <<"File: ">> \o t.filename \o <<NL>> \o t.content

\* sep.join(parts)
RECURSIVE str_join(_, _)
str_join(sep, parts) ==
    IF parts = <<>> THEN <<>>
    ELSE IF Len(parts) = 1 THEN parts[1]
    ELSE parts[1] \o sep \o str_join(sep, Tail(parts))

\* combined_text with the blocks joined by a single newline.
combined_text_one_newline(batch) ==
    str_join(<<NL>>, [i \in 1..Len(batch) |-> block(batch[i])])

\* combined_text of analyze_transcriptions.
combined_text(batch) ==
    str_join(<<NL, NL>>, [i \in 1..Len(batch) |-> block(batch[i])])

PromptHead ==
    <<"Please analyze the following transcriptions and create comprehensive notes about:\n1. Main topics discussed\n2. Key points and insights\n3. Action items or decisions made\n4. Important dates or deadlines mentioned\n\nTranscriptions:\n">>
PromptTail ==
    <<"\n\nPlease provide a well-structured summary of the above content.">>

\* The prompt analyze_transcriptions builds.
build_prompt(batch) == PromptHead \o combined_text(batch) \o PromptTail

\* str.strip()
RECURSIVE lstrip(_)
lstrip(s) == IF s # <<>> /\ Head(s) \in {SPACE, NL} THEN lstrip(Tail(s)) ELSE s
RECURSIVE rstrip(_)
rstrip(s) ==
    IF s # <<>> /\ s[Len(s)] \in {SPACE, NL} THEN rstrip(SubSeq(s, 1, Len(s) - 1)) ELSE s
strip(s) == rstrip(lstrip(s))

\* What the LLM can return as response['choices'][0]['text'].
LlmTexts == {<<SPACE, "o", "k", NL>>, <<"n", "o">>}

\* main() up to and including TranscriptionAnalyzer(model_path): select the
\* model path, return when it is missing, else construct the analyzer.
\* Llama() raises ValueError when the path it is given does not exist.
AMainStart ==
    /\ apc = "start"
    /\ LET selected == getenv(environ, "LLM_MODEL_PATH", DefaultModel)
       IN  /\ model_path' = selected
           /\ IF ~exists(fs, selected)
              THEN /\ stdout' = Append(stdout, <<"Error: Model file not found at ", selected>>)
                   /\ apc' = "no_model"
                   /\ exit_code' = 0
                   /\ UNCHANGED <<llama, error>>
              ELSE IF ~exists(fs, DefaultModel)
              THEN /\ apc' = "raised"
                   /\ error' = "ValueError"
                   /\ exit_code' = 1
                   /\ UNCHANGED <<llama, stdout>>
              ELSE /\ llama' = DefaultModel
                   /\ apc' = "constructed"
                   /\ UNCHANGED <<stdout, exit_code, error>>
    /\ UNCHANGED <<environ, txt_files, transcriptions, prompt, analysis>>
    /\ UNCHANGED tvars

\* main(): load the transcriptions, return when there are none.
ALoad ==
    /\ apc = "constructed"
    /\ LET r == load_transcriptions(fs, OutputDir)
       IN  /\ txt_files' = r.files
           /\ transcriptions' = r.batch
           /\ IF r.raised # ""
              THEN /\ apc' = "raised"
                   /\ error' = r.raised
                   /\ exit_code' = 1
                   /\ UNCHANGED stdout
              ELSE IF r.batch = <<>>
              THEN /\ apc' = "no_files"
                   /\ stdout' = Append(stdout, <<"No transcription files found!", <<>> >>)
                   /\ exit_code' = 0
                   /\ UNCHANGED error
              ELSE /\ apc' = "loaded"
                   /\ UNCHANGED <<stdout, exit_code, error>>
    /\ UNCHANGED <<environ, model_path, llama, prompt, analysis>>
    /\ UNCHANGED tvars

\* main(): analyze_transcriptions; the model call returns a completion or
\* raises.
AAnalyze ==
    /\ apc = "loaded"
    /\ prompt' = build_prompt(transcriptions)
    /\ \/ \E text \in LlmTexts :
             /\ analysis' = strip(text)
             /\ apc' = "analyzed"
             /\ UNCHANGED <<exit_code, error>>
       \/ /\ apc' = "raised"
          /\ error' = "RuntimeError"
          /\ exit_code' = 1
          /\ UNCHANGED analysis
    /\ UNCHANGED <<environ, model_path, llama, txt_files, transcriptions, stdout>>
    /\ UNCHANGED tvars

\* main(): save_analysis and the closing print.  open(output_file, 'w')
\* raises when the directory TranscriptionAnalyzer is missing.
ASave ==
    /\ apc = "analyzed"
    /\ IF ~isdir(fs, AnalyzerDir)
       THEN /\ apc' = "raised"
            /\ error' = "FileNotFoundError"
            /\ exit_code' = 1
            /\ UNCHANGED <<fs, stdout>>
       ELSE /\ fs' = put(fs, output_file, File(analysis))
            /\ stdout' = Append(stdout, <<"Analysis saved to ", output_file>>)
            /\ apc' = "saved"
            /\ exit_code' = 0
            /\ UNCHANGED error
    /\ UNCHANGED <<environ, model_path, llama, txt_files, transcriptions, prompt, analysis>>
    /\ UNCHANGED <<pc, run, audio_files, idx, successful, results, prevResults, prevTree>>

\* What the working directory of analyze.py can hold: which model files,
\* whether TranscriptionAnalyzer exists, and TranscriptionApp/output missing
\* or holding some of a.txt, b.txt (a file or a directory), .h.txt and n.md.
ModelNodes(present) == {<<(<<(<<"models">>)>>), Dir>>} \cup {<<m, File(<<"~">>)>> : m \in present}

NoEntry == [kind |-> "absent", content |-> <<>>]

OutputEntry(n, node) ==
    IF node = NoEntry THEN {} ELSE {<<join(OutputDir, n), node>>}

OutputChoices ==
    {c \in [{A_TXT, B_TXT, H_TXT, N_MD} -> {NoEntry, Dir} \cup {File(t) : t \in AsrTexts}] :
        /\ c[A_TXT] # Dir
        /\ c[H_TXT] \in {NoEntry, File(<<"y">>)}
        /\ c[N_MD] \in {NoEntry, File(<<"y">>)}}

OutputNodes(c) ==
    {<<(<<(<<"TranscriptionApp">>)>>), Dir>>, <<OutputDir, Dir>>}
    \cup UNION {OutputEntry(n, c[n]) : n \in DOMAIN c}

WorkTrees ==
    {FsOf(ModelNodes(present) \cup out \cup adir) :
       present \in SUBSET {DefaultModel, OtherModel},
       out \in {{}} \cup {OutputNodes(c) : c \in OutputChoices},
       adir \in {{}, {<<AnalyzerDir, Dir>>}}}

Environs == {<<>>} \cup {("LLM_MODEL_PATH" :> m) : m \in {DefaultModel, OtherModel}}

AInit ==
    /\ environ \in Environs
    /\ apc = "start"
    /\ model_path = <<>>
    /\ llama = <<>>
    /\ txt_files = <<>>
    /\ transcriptions = <<>>
    /\ prompt = <<>>
    /\ analysis = <<>>
    /\ stdout = <<>>
    /\ exit_code = -1
    /\ error = ""

InitAnalysis ==
    /\ fs \in WorkTrees
    /\ TInit
    /\ AInit

NextAnalysis ==
    \/ AMainStart
    \/ ALoad
    \/ AAnalyze
    \/ ASave

SpecAnalysis == InitAnalysis /\ [][NextAnalysis]_vars

---------------------------------------------------------------------------
(* The two programs one after the other over one filesystem: analyze.py is  *)
(* started once a run of transcribe.py has ended.                           *)

PipelineWorkTrees ==
    {w \in WorkTrees : /\ OtherModel \notin DOMAIN w
                       /\ AnalyzerDir \in DOMAIN w
                       /\ \A n \in {B_TXT, H_TXT, N_MD} : join(OutputDir, n) \notin DOMAIN w}

InitPipeline ==
    /\ fs \in {t @@ w : t \in BatchTrees, w \in PipelineWorkTrees}
    /\ TInit
    /\ AInit
    /\ environ = <<>>

TranscribeIdle == pc \in {"done", "raised"}

NextPipeline ==
    \/ (apc = "start" /\ MainStart)
    \/ (apc = "start" /\ TranscribeStep)
    \/ (apc = "start" /\ MainFinish)
    \/ (apc = "start" /\ Rerun)
    \/ (TranscribeIdle /\ AMainStart)
    \/ (TranscribeIdle /\ ALoad)
    \/ (TranscribeIdle /\ AAnalyze)
    \/ (TranscribeIdle /\ ASave)

SpecPipeline == InitPipeline /\ [][NextPipeline]_vars

---------------------------------------------------------------------------
(* Claims about transcribe.py, checked under Spec *)

\* The indices of this run's items whose processing failed.
Failed == {i \in 1..Len(results) : ~results[i].ret}

\* Every item of a results list succeeded.
AllOk(rs) == \A i \in 1..Len(rs) : rs[i].ret

\* Transcriptions/{datePartition}/{baseName}.txt for the recording
\* AudioRecordings/{datePartition}/{fileName}, read off the recording's path:
\* baseName is fileName without its trailing ".mp3".
PathFor(recording) ==
    <<DataDir, Transcriptions, recording[3],
      SubSeq(recording[4], 1, Len(recording[4]) - Len(MP3)) \o TXT>>

\* C1: in the first run (empty Transcriptions tree), once the batch loop is
\* over it has visited all N discovered recordings in order, successful is
\* N - |F| for the set F of failed items, and a transcript file exists for
\* exactly the recordings not in F.
C1_BatchFaultIsolation ==
    (pc = "done" /\ run = 1) =>
        /\ Len(results) = Len(audio_files)
        /\ \A i \in 1..Len(results) : results[i].file = audio_files[i]
        /\ successful = Len(audio_files) - Cardinality(Failed)
        /\ \A i \in 1..Len(results) :
              isfile(fs, PathFor(audio_files[i])) <=> i \notin Failed

\* C2: when a later run ends in which every recording was transcribed to the
\* text the previous run got for it, each recording's transcript is at the path
\* given by its date partition and file name alone, holds that text once, and
\* the transcript tree equals the tree the previous run left.
C2_RerunIdempotent ==
    (pc = "done" /\ run >= 2 /\ AllOk(prevResults) /\ AllOk(results)
        /\ results = prevResults) =>
        /\ TranscriptFiles(fs) = prevTree
        /\ DOMAIN TranscriptFiles(fs) = {PathFor(audio_files[i]) : i \in 1..Len(audio_files)}
        /\ \A i \in 1..Len(results) :
              TranscriptFiles(fs)[PathFor(audio_files[i])] = results[i].text

C2_Witness ==
    /\ pc = "done"
    /\ run = 2
    /\ Len(results) = 2
    /\ AllOk(results)
    /\ results = prevResults
    /\ results[1].text # results[2].text

\* The entries get_audio_files is meant to return: files, named *.mp3,
\* directly inside a directory that is directly inside AudioRecordings.
Mp3Files ==
    {p \in DOMAIN fs : /\ Len(p) = 4
                       /\ parent(parent(p)) = audio_dir
                       /\ isdir(fs, parent(p))
                       /\ isfile(fs, p)
                       /\ endswith(name(p), MP3)}

\* C8: the list get_audio_files returned holds exactly the files named *.mp3
\* that lie directly inside an immediate subdirectory of AudioRecordings.
C8_DiscoveryExact ==
    pc \in {"loop", "done"} =>
        {audio_files[i] : i \in 1..Len(audio_files)} = Mp3Files

\* C9: when AudioRecordings does not exist, the run ends normally with an
\* empty list of recordings, no call of transcribe_audio, a success count of
\* 0 and no Transcriptions file or directory.
C9_MissingAudioDirNoOp ==
    (~exists(fs, audio_dir) /\ pc # "start") =>
        /\ pc = "done"
        /\ audio_files = <<>>
        /\ results = <<>>
        /\ successful = 0
        /\ \A p \in DOMAIN fs : ~(Len(p) >= 2 /\ SubSeq(p, 1, 2) = transcriptions_dir)

C9_Witness == ~exists(fs, audio_dir) /\ pc = "done"

\* C10: a loop iteration in which transcribe_audio returns False leaves every
\* transcript file as it was: none is created, none changes content.
C10_FailureLeavesTranscripts ==
    [][(/\ Len(results') = Len(results) + 1
        /\ ~results'[Len(results')].ret)
       => TranscriptFiles(fs') = TranscriptFiles(fs)]_vars

---------------------------------------------------------------------------
(* Claims about analyze.py, checked under SpecAnalysis and SpecPipeline *)

\* load_transcriptions has returned its batch to main().
LoadReturned == apc \in {"loaded", "no_files", "analyzed", "saved"}

\* C3: once transcribe.py has ended with every recording transcribed and
\* analyze.py has loaded its batch, every transcript file under Transcriptions
\* is among the files the batch was loaded from, with its content.
C3_HandoffComplete ==
    (pc = "done" /\ AllOk(results) /\ LoadReturned) =>
        \A p \in DOMAIN TranscriptFiles(fs) :
            \E i \in 1..Len(txt_files) :
                /\ txt_files[i] = p
                /\ transcriptions[i].content = TranscriptFiles(fs)[p]

\* C4: whenever the analyzer has been constructed, its model handle was
\* constructed from the selected model path.
C4_ModelFromSelectedPath ==
    llama # <<>> => llama = model_path

\* C5: when the selected model path does not exist, the run has printed the
\* diagnostic naming that path, has constructed no model, loaded no
\* transcript, built no prompt, written no output file, and has ended with a
\* non-zero status.
C5_MissingModelFailsFast ==
    (apc # "start" /\ ~exists(fs, model_path)) =>
        /\ \E i \in 1..Len(stdout) :
              stdout[i] = <<"Error: Model file not found at ", model_path>>
        /\ llama = <<>>
        /\ txt_files = <<>>
        /\ transcriptions = <<>>
        /\ prompt = <<>>
        /\ ~exists(fs, output_file)
        /\ exit_code > 0

\* C6: when the directory to load from does not exist, load_transcriptions
\* does not return: the run is still before the load, or has ended with a
\* DirectoryNotFound error.
C6_MissingDirectoryRaises ==
    (llama # <<>> /\ ~exists(fs, OutputDir)) =>
        \/ apc = "constructed"
        \/ (apc = "raised" /\ error = "DirectoryNotFound")

\* Length of the block "File: {fileName}\n{content}" of a transcript.
BlockLen(t) == 1 + Len(t.filename) + 1 + Len(t.content)

\* Where block i starts in the prompt: after the head of the template, the
\* blocks before it and one blank line after each of those.
RECURSIVE BlockStart(_)
BlockStart(i) ==
    IF i = 1 THEN Len(PromptHead)
    ELSE BlockStart(i - 1) + BlockLen(transcriptions[i - 1]) + 2

\* C7: the prompt handed to the LLM is the head of the template, then for
\* each transcript of the batch, in order, "File: {fileName}", a newline and
\* the content, one blank line between consecutive blocks, then the tail of
\* the template, and nothing else.
C7_PromptHoldsEveryTranscript ==
    prompt # <<>> =>
        LET n == Len(transcriptions)
            end == BlockStart(n) + BlockLen(transcriptions[n])
        IN  /\ SubSeq(prompt, 1, Len(PromptHead)) = PromptHead
            /\ \A i \in 1..n :
                  LET t == transcriptions[i]
                      at == BlockStart(i)
                  IN  /\ prompt[at + 1] = "File: "
                      /\ SubSeq(prompt, at + 2, at + 1 + Len(t.filename)) = t.filename
                      /\ prompt[at + 2 + Len(t.filename)] = NL
                      /\ SubSeq(prompt, at + 3 + Len(t.filename), at + BlockLen(t)) = t.content
                      /\ i < n => SubSeq(prompt, at + BlockLen(t) + 1, at + BlockLen(t) + 2)
                                     = <<NL, NL>>
            /\ SubSeq(prompt, end + 1, Len(prompt)) = PromptTail

C7_Witness ==
    /\ prompt # <<>>
    /\ Len(transcriptions) = 2
    /\ transcriptions[1].content # transcriptions[2].content

====
